---- MODULE Spec2Model ----
(***************************************************************************)
(* AskGenie (src/views/chat.py): a Streamlit chat page.  Every user        *)
(* interaction reruns the script top to bottom; st.session_state survives  *)
(* the reruns.  A run with a chat input appends the user turn, invokes the *)
(* model through RunnableWithMessageHistory and appends the assistant      *)
(* turn; a run without input shows the greeting.                           *)
(*                                                                         *)
(* The slider for the temperature is a float slider on [0.0, 1.0]; the     *)
(* model keeps the temperature in hundredths (0 .. 100).                   *)
(***************************************************************************)
EXTENDS Integers, Sequences, FiniteSets, TLC

\* ------------------------------------------------------------------ bounds
MaxSubmissions == 3

\* ------------------------------------------------------- program constants
TemperatureMin == 0
TemperatureMax == 100
TemperatureDefault == 70
MaxTokensMin == 1
MaxTokensMax == 2048
MaxTokensDefault == 256

Languages == {"English", "Hindi", "Spanish", "French", "German"}
ModelTypes == {"LLaMA 3.1-8B", "Gemma2 9B", "Mixtral"}

\* values of the sliders that the model explores: both ends and the default
TemperatureValues == {TemperatureMin, TemperatureDefault, TemperatureMax}
MaxTokensValues == {MaxTokensMin, MaxTokensDefault, MaxTokensMax}

\* texts the user types, and texts the model service returns
Texts == {"Hello", "Bye"}
Replies == {"Hi there", "Goodbye"}

model_dict ==
  [m \in ModelTypes |->
     CASE m = "LLaMA 3.1-8B" -> "llama-3.1-8b-instant"
       [] m = "Gemma2 9B" -> "gemma2-9b-it"
       [] m = "Mixtral" -> "mixtral-8x7b-32768"]

greetings ==
  [l \in Languages |->
     CASE l = "English" -> "Hi! How can I assist you today?"
       [] l = "Spanish" -> "Hola! Como puedo ayudarte hoy?"
       [] l = "French" -> "Bonjour! Comment puis-je vous aider aujourd'hui?"
       [] l = "German" -> "Hallo! Wie kann ich Ihnen heute helfen?"
       [] l = "Hindi" -> "Namaste! Main aaj aapki kaise madad kar sakta hoon?"]

\* --------------------------------------------------------------- variables
VARIABLES
  language,       \* value of the language selectbox
  model_type,     \* value of the model selectbox
  temperature,    \* value of the temperature slider, in hundredths
  max_tokens,     \* value of the max-tokens slider
  session_state,  \* st.session_state: a function from the keys set so far
  page,           \* chat messages rendered by the current script run
  user_input,     \* the run's chat input; "" when there is none
  response,       \* content of the response of the run; "" when there is none
  exception,      \* the run ended with the uncaught error of the model call
  inflight,       \* the model call that is outstanding (at most one)
  pc,             \* "idle": no run is executing; "calling": blocked in invoke
  submissions,    \* number of runs that took the user_input branch
  calls,          \* number of calls of the model service
  failures        \* number of calls of the model service that raised

vars == <<language, model_type, temperature, max_tokens, session_state, page,
          user_input, response, exception, inflight, pc, submissions, calls,
          failures>>

\* ----------------------------------------------------------------- helpers
Turn(role, content) == [role |-> role, content |-> content]

Has(ss, key) == key \in DOMAIN ss

Put(ss, key, value) == (key :> value) @@ ss

loaded == Has(session_state, "messages")

\* st.session_state.messages as the script reads it; empty before the first run
messages == IF Has(session_state, "messages") THEN session_state.messages ELSE <<>>

\* st.session_state.chat_history.messages; empty before the first run
chat_history ==
  IF Has(session_state, "chat_history") THEN session_state.chat_history ELSE <<>>

\* faulty variant of Sidebar: the language is written only when it is absent
SidebarStale(ss, lang, mt) ==
  Put(Put(ss, "language", IF Has(ss, "language") THEN ss.language ELSE lang),
      "model", mt)

\* the selectboxes write their values in the session state on every run
Sidebar(ss, lang, mt) == Put(Put(ss, "language", lang), "model", mt)

\* faulty variant of InitSessionState: both keys are reset on every run
InitSessionStateReset(ss) == Put(Put(ss, "chat_history", <<>>), "messages", <<>>)

\* the two keys are created only when they are absent
InitSessionState(ss) ==
  LET withHistory == IF Has(ss, "chat_history") THEN ss ELSE Put(ss, "chat_history", <<>>)
  IN IF Has(withHistory, "messages") THEN withHistory ELSE Put(withHistory, "messages", <<>>)

\* faulty variant of ChatGroq: a temperature of 0 is taken for "not set"
ChatGroqFalsyDefault(model, temp, maxTokens) ==
  [model |-> model,
   temperature |-> IF temp = 0 THEN TemperatureDefault ELSE temp,
   max_tokens |-> maxTokens,
   streaming |-> TRUE]

\* the client of the model service, built on every run
ChatGroq(model, temp, maxTokens) ==
  [model |-> model, temperature |-> temp, max_tokens |-> maxTokens, streaming |-> TRUE]

\* the system instruction of generic_template, formatted with the language
SystemText(lang) ==
  <<"You are a helpful assistant developed by Mitesh. Answer all questions to the best of your ability and give response in given ",
    lang,
    " language.">>

\* a role/content dict becomes a chat message of the matching type
ToMessage(turn) ==
  [type |-> CASE turn.role = "user" -> "human"
              [] turn.role = "assistant" -> "ai"
              [] OTHER -> turn.role,
   content |-> turn.content]

ToMessages(turns) == [i \in 1..Len(turns) |-> ToMessage(turns[i])]

\* RunnableWithMessageHistory, before the chain runs: with no
\* history_messages_key the stored history is put in front of the input
EnterHistory(hist, input) == hist \o ToMessages(input)

\* RunnableWithMessageHistory, after the chain returned: the input messages
\* and the output message are added to the history
ExitHistory(hist, input, output) == hist \o ToMessages(input) \o <<output>>

\* with_message_history.invoke: the call as the model service receives it
Invoke(llm, lang, input, hist) ==
  [llm |-> llm, system |-> SystemText(lang), messages |-> EnterHistory(hist, input)]

\* faulty variants of AppendUser: the turn is not stored, or stored with the
\* wrong role
AppendUserDropped(ss, text) == ss

AppendUserWrongRole(ss, text) ==
  [ss EXCEPT !.messages = Append(@, Turn("assistant", text))]

\* st.session_state.messages.append of the user turn
AppendUser(ss, text) == [ss EXCEPT !.messages = Append(@, Turn("user", text))]

\* faulty variant of AppendAssistant: the turn is not stored
AppendAssistantMissing(ss, content) == ss

\* st.session_state.messages.append of the assistant turn
AppendAssistant(ss, content) ==
  [ss EXCEPT !.messages = Append(@, Turn("assistant", content))]

\* ----------------------------------------------------------------- actions
Init ==
  /\ language = "English"
  /\ model_type = "LLaMA 3.1-8B"
  /\ temperature = TemperatureDefault
  /\ max_tokens = MaxTokensDefault
  /\ session_state = [k \in {} |-> ""]
  /\ page = <<>>
  /\ user_input = ""
  /\ response = ""
  /\ exception = FALSE
  /\ inflight = <<>>
  /\ pc = "idle"
  /\ submissions = 0
  /\ calls = 0
  /\ failures = 0

\* faulty variant of NoInputRun: the greeting is also appended to the store
NoInputRunStoresGreeting(lang, mt, temp, maxTokens) ==
  /\ pc = "idle"
  /\ language' = lang
  /\ model_type' = mt
  /\ temperature' = temp
  /\ max_tokens' = maxTokens
  /\ LET ss == InitSessionState(Sidebar(session_state, lang, mt))
         greeting == Turn("", greetings[ss.language])
     IN /\ session_state' = [ss EXCEPT !.messages = Append(@, greeting)]
        /\ page' = ss.messages \o <<greeting>>
  /\ user_input' = ""
  /\ response' = ""
  /\ exception' = FALSE
  /\ UNCHANGED <<inflight, pc, submissions, calls, failures>>

\* a whole script run whose chat input is empty, with the given widget values
NoInputRun(lang, mt, temp, maxTokens) ==
  /\ pc = "idle"
  /\ language' = lang
  /\ model_type' = mt
  /\ temperature' = temp
  /\ max_tokens' = maxTokens
  /\ LET ss == InitSessionState(Sidebar(session_state, lang, mt))
     IN /\ session_state' = ss
        /\ page' = ss.messages \o <<Turn("", greetings[ss.language])>>
  /\ user_input' = ""
  /\ response' = ""
  /\ exception' = FALSE
  /\ UNCHANGED <<inflight, pc, submissions, calls, failures>>

\* the first run of the session: the session state is empty
FirstLoad ==
  /\ ~loaded
  /\ NoInputRun(language, model_type, temperature, max_tokens)

\* a rerun that changes no widget and carries no input (an empty input)
Rerun ==
  /\ loaded
  /\ NoInputRun(language, model_type, temperature, max_tokens)

SetLanguage(lang) ==
  /\ loaded
  /\ lang # language
  /\ NoInputRun(lang, model_type, temperature, max_tokens)

SetModel(mt) ==
  /\ loaded
  /\ mt # model_type
  /\ NoInputRun(language, mt, temperature, max_tokens)

SetTemperature(temp) ==
  /\ loaded
  /\ temp # temperature
  /\ NoInputRun(language, model_type, temp, max_tokens)

SetMaxTokens(maxTokens) ==
  /\ loaded
  /\ maxTokens # max_tokens
  /\ NoInputRun(language, model_type, temperature, maxTokens)

\* a run with a chat input, up to the point where it blocks in invoke
Submit(text) ==
  /\ pc = "idle"
  /\ loaded
  /\ submissions < MaxSubmissions
  /\ LET ss0 == InitSessionState(Sidebar(session_state, language, model_type))
         llm == ChatGroq(model_dict[ss0.model], temperature, max_tokens)
         ss1 == AppendUser(ss0, text)
     IN /\ session_state' = ss1
        /\ page' = ss0.messages \o <<Turn("user", text)>>
        /\ inflight' = <<Invoke(llm, ss1.language, ss1.messages, ss1.chat_history)>>
  /\ user_input' = text
  /\ response' = ""
  /\ exception' = FALSE
  /\ pc' = "calling"
  /\ submissions' = submissions + 1
  /\ calls' = calls + 1
  /\ UNCHANGED <<language, model_type, temperature, max_tokens, failures>>

\* the model call returns: the history is saved, the assistant turn is stored
ModelReturn(content) ==
  /\ pc = "calling"
  /\ LET saved == ExitHistory(session_state.chat_history, session_state.messages,
                              [type |-> "ai", content |-> content])
         ss == Put(session_state, "chat_history", saved)
     IN session_state' = AppendAssistant(ss, content)
  /\ page' = Append(page, Turn("assistant", content))
  /\ response' = content
  /\ inflight' = <<>>
  /\ pc' = "idle"
  /\ UNCHANGED <<language, model_type, temperature, max_tokens, user_input,
                 exception, submissions, calls, failures>>

\* faulty variant of ModelFail: the error is caught and the user turn removed
ModelFailRollback ==
  /\ pc = "calling"
  /\ session_state' =
       [session_state EXCEPT !.messages = SubSeq(@, 1, Len(@) - 1)]
  /\ exception' = TRUE
  /\ inflight' = <<>>
  /\ pc' = "idle"
  /\ failures' = failures + 1
  /\ UNCHANGED <<language, model_type, temperature, max_tokens, page,
                 user_input, response, submissions, calls>>

\* faulty variant of ModelFail: the first failed call is retried once
ModelFailRetry ==
  /\ pc = "calling"
  /\ calls' = calls + 1
  /\ failures' = failures + 1
  /\ pc' = IF failures = 0 THEN "calling" ELSE "idle"
  /\ inflight' = IF failures = 0 THEN inflight ELSE <<>>
  /\ exception' = (failures # 0)
  /\ UNCHANGED <<language, model_type, temperature, max_tokens, session_state,
                 page, user_input, response, submissions>>

\* the model call raises: nothing catches the error, the run ends
ModelFail ==
  /\ pc = "calling"
  /\ exception' = TRUE
  /\ inflight' = <<>>
  /\ pc' = "idle"
  /\ failures' = failures + 1
  /\ UNCHANGED <<language, model_type, temperature, max_tokens, session_state,
                 page, user_input, response, submissions, calls>>

Next ==
  \/ FirstLoad
  \/ Rerun
  \/ \E lang \in Languages : SetLanguage(lang)
  \/ \E mt \in ModelTypes : SetModel(mt)
  \/ \E temp \in TemperatureValues : SetTemperature(temp)
  \/ \E maxTokens \in MaxTokensValues : SetMaxTokens(maxTokens)
  \/ \E text \in Texts : Submit(text)
  \/ \E content \in Replies : ModelReturn(content)
  \/ ModelFail

Spec == Init /\ [][Next]_vars

\* -------------------------------------------------------------- properties
IsPrefix(s, t) == Len(s) <= Len(t) /\ SubSeq(t, 1, Len(s)) = s

Last(s) == s[Len(s)]

AllButLast(s) == SubSeq(s, 1, Len(s) - 1)

\* C1: in a session where every model call so far has succeeded, once the
\* runs of N submissions are over the store holds exactly 2N turns, a user
\* turn followed by an assistant turn for each submission.
C1_StoreLength ==
  (pc = "idle" /\ failures = 0) =>
    /\ Len(messages) = 2 * submissions
    /\ \A i \in 1..Len(messages) :
         messages[i].role = IF i % 2 = 1 THEN "user" ELSE "assistant"

C1_Witness ==
  /\ pc = "idle"
  /\ failures = 0
  /\ submissions = 2
  /\ Len(messages) = 4

\* C2: on every submission the messages the model receives after the system
\* instruction are exactly the turns of the store at that moment, each once
\* and in insertion order.
C2_PromptIsStore ==
  pc = "calling" => inflight[1].messages = ToMessages(messages)

\* C3: when the model call of a submission fails, the error ends the run
\* uncaught and without another call, the store keeps the user turn of the
\* submission as its last turn, and the turns stored before the submission
\* are the ones the run displayed before it.
C3_FailureLeavesUserTurn ==
  [][(pc = "calling" /\ failures' = failures + 1) =>
       /\ exception'
       /\ pc' = "idle"
       /\ inflight' = <<>>
       /\ calls' = calls
       /\ messages' = messages
       /\ Len(messages') > 0
       /\ Last(messages') = Turn("user", user_input)
       /\ AllButLast(messages') = AllButLast(page)]_vars

C3_Witness ==
  /\ exception
  /\ pc = "idle"
  /\ failures = 1
  /\ Len(messages) = 3
  /\ Last(messages).role = "user"

\* C4: the store is append-only: whatever step the session takes, the store
\* before the step is a prefix of the store after it.
C4_AppendOnly == [][IsPrefix(messages, messages')]_vars

C4_Witness ==
  /\ failures >= 1
  /\ Len(messages) >= 3
  /\ user_input = ""
  /\ language # "English"
  /\ temperature # TemperatureDefault

\* C5: a submission appends its user turn when the model is invoked, and the
\* return of the call appends one assistant turn holding the returned text as
\* the new last turn; a failed call appends nothing.
C5_UserThenAssistant ==
  [][/\ (pc = "idle" /\ pc' = "calling") =>
          /\ messages' = Append(messages, Turn("user", user_input'))
          /\ user_input' \in Texts
     /\ (pc = "calling" /\ pc' = "idle" /\ ~exception') =>
          /\ messages' = Append(messages, Turn("assistant", response'))
          /\ response' \in Replies
     /\ (pc = "calling" /\ pc' = "calling") => messages' = messages]_vars

C5_Witness ==
  /\ pc = "idle"
  /\ response = "Hi there"
  /\ messages = <<Turn("user", "Hello"), Turn("assistant", "Hi there")>>

\* C6: the system instruction of every model call is the template filled with
\* the language selected at the submission: it names that language and no
\* other language.
C6_SystemInstructionLanguage ==
  pc = "calling" =>
    /\ inflight[1].system = SystemText(language)
    /\ \A l \in Languages :
         (\E i \in 1..Len(inflight[1].system) : inflight[1].system[i] = l)
           <=> l = language

C6_Witness ==
  /\ pc = "calling"
  /\ language = "Hindi"
  /\ submissions = 2
  /\ \E i \in 1..Len(inflight[1].system) : inflight[1].system[i] = "Hindi"

\* C7: the model client of every call carries the temperature and the
\* max_tokens selected in the sidebar, unchanged, for every value of the
\* sliders including both ends.
C7_ParametersPassedThrough ==
  pc = "calling" =>
    /\ inflight[1].llm.temperature = temperature
    /\ inflight[1].llm.max_tokens = max_tokens
    /\ inflight[1].llm.model = model_dict[model_type]

C7_Witness ==
  /\ pc = "calling"
  /\ temperature = TemperatureMin
  /\ max_tokens = MaxTokensMin
  /\ inflight[1].llm.temperature = TemperatureMin
  /\ inflight[1].llm.max_tokens = MaxTokensMin

\* C8: in every state the store starts with a user turn, holds only user and
\* assistant turns, and never holds two assistant turns in a row.
C8_AtMostOneAssistantPerUser ==
  /\ \A i \in 1..Len(messages) : messages[i].role \in {"user", "assistant"}
  /\ Len(messages) > 0 => messages[1].role = "user"
  /\ \A i \in 1..(Len(messages) - 1) :
       ~(messages[i].role = "assistant" /\ messages[i + 1].role = "assistant")

C8_Witness ==
  /\ failures >= 1
  /\ \E i \in 1..(Len(messages) - 1) :
       messages[i].role = "user" /\ messages[i + 1].role = "user"
  /\ Last(messages).role = "assistant"

\* C9: every submission makes exactly one call of the model service, at most
\* one call is outstanding, and while a call is outstanding nothing happens
\* but its return or its failure: no other call, no other submission, no
\* append other than the assistant turn of the returning call.
C9_OneSynchronousCall ==
  /\ [](calls = submissions /\ Len(inflight) = (IF pc = "calling" THEN 1 ELSE 0))
  /\ [][pc = "calling" =>
          /\ calls' = calls
          /\ submissions' = submissions
          /\ pc' = "idle"
          /\ \/ messages' = messages
             \/ messages' = Append(messages, Turn("assistant", response'))]_vars

C9_Witness ==
  /\ pc = "calling"
  /\ failures >= 1
  /\ submissions = 2
  /\ calls = 2

\* C10: a run without user input makes no model call, leaves the store and
\* the chat history as they were, and renders the stored turns followed by
\* the greeting of the selected language; the greeting is not in the store.
C10_NoInputRunFrame ==
  [][user_input' = "" =>
       /\ calls' = calls
       /\ inflight' = <<>>
       /\ messages' = messages
       /\ chat_history' = chat_history
       /\ page' = messages \o <<Turn("", greetings[language'])>>
       /\ \A i \in 1..Len(messages') : messages'[i].role # ""]_vars

C10_Witness ==
  /\ user_input = ""
  /\ Len(messages) >= 2
  /\ language = "French"
  /\ Last(page) = Turn("", greetings["French"])

====
